---- MODULE Spec2Model ----
(***************************************************************************)
(* Model of the quadrature encoder plugin, plugins/encoder/encoder.c:      *)
(* the producer encoder_event, the consumer encoder_execute_realtime, the  *)
(* motion strategy mpg_jog_relative and the settings functions.            *)
(*                                                                         *)
(* The C globals are the variables.  Every C function is an operator on a  *)
(* record G holding those globals and returning the record after the call; *)
(* an action applies one such operator to the current state.  Collaborator *)
(* calls (hal.stream.enqueue_realtime_command, grbl.protocol_enqueue_gcode,*)
(* hal.stream.write, hal.encoder_reset) are appended to the record "out",  *)
(* which holds what the last call did.                                     *)
(*                                                                         *)
(* Not modelled: mpg_t.next_event (written at line 317, never read) and    *)
(* mpg_t.pos (read only by mpg_move_absolute, which is never bound).       *)
(***************************************************************************)
EXTENDS Integers, Sequences, FiniteSets, TLC

\* ------------------------------------------------------------ constants

\* Number of axes (grbl's N_AXIS) and of encoders (N_ENCODER = QEI_ENABLE).
N_AXIS == 3
N_ENCODER == 2

\* encoder_mode_t, in the order the code relies on
\* (Encoder_Universal <= mode < Encoder_Spindle_Position).
Encoder_Universal == 0
Encoder_FeedRate == 1
Encoder_RapidRate == 2
Encoder_Spindle_RPM == 3
Encoder_MPG == 4
Encoder_MPG_X == 5
Encoder_MPG_Y == 6
Encoder_MPG_Z == 7
Encoder_Spindle_Position == 11

\* encoder_t.axis of an encoder that is bound to no axis (line 614).
AXIS_NONE == 255

\* Machine states (one bit each); the executor tests STATE_IDLE and STATE_JOG.
STATE_IDLE == 0
STATE_CYCLE == 8
STATE_JOG == 32

\* sys.override.rapid_rate levels.
DEFAULT_RAPID_OVERRIDE == 100
RAPID_OVERRIDE_MEDIUM == 50
RAPID_OVERRIDE_LOW == 25

\* Settings defaults and limits.
DEFAULT_CPR == 400
DEFAULT_CPD == 4
DEFAULT_DBL_CLICK_WINDOW == 500
DBL_CLICK_MIN == 100
DBL_CLICK_MAX == 900

\* setting_encoder_t and the stride of the per-encoder settings.
Setting_EncoderMode == 0
Setting_EncoderCPR == 1
Setting_EncoderCPD == 2
Setting_EncoderDblClickWindow == 3
ENCODER_SETTINGS_INCREMENT == 5

\* The scale_factor cycle 1 -> 10 -> 100 -> 1 has three steps (lines 284-286).
ScalePeriod == 3

\* -------------------------------------------------------------- bounds

\* An override wheel delivers the raw positions -MaxPos..MaxPos, the wheel of a
\* single MPG axis the raw positions of the counts -MaxCount..MaxCount.
MaxPos == 4
MaxCount == 1
\* The clicks of a Universal encoder between two executor passes are counted up
\* to MaxClicks.
MaxClicks == 3

Encoders == 0 .. (N_ENCODER - 1)
Axes == 0 .. (N_AXIS - 1)
\* A null encoder_t pointer (no encoder id)
NULL == -1

MachineStates == {STATE_IDLE, STATE_CYCLE, STATE_JOG}
RapidLevels == {DEFAULT_RAPID_OVERRIDE, RAPID_OVERRIDE_MEDIUM, RAPID_OVERRIDE_LOW}

\* Values an out-of-bounds read of npos[] or a division by zero may yield.
Garbage == {0, 1}

VARIABLES
    settings,         \* driver_settings.encoder[]: mode, cpr, cpd, dbl_click_window
    encoder,          \* encoder_t[]: mode, axis, position, velocity, event
    npos,             \* normalized count baseline per encoder
    mpg,              \* mpg_t per axis: position, event, moving, scale_factor, encoder
    mpg_events,       \* the consumer's snapshot of the per-axis event flags
    mpg_event,        \* pending axis mask (a set of axes)
    mpg_spin_lock,
    mode_chg,
    override_encoder, \* id of the last Encoder_Universal encoder, or NULL
    is_moving,        \* the static local of mpg_jog_relative
    fault,            \* fatal conditions met so far
    pc,               \* position of the consumer inside encoder_execute_realtime
    loc,              \* its locals: state, event, axes, idx, move_action
    raised,           \* history: the events raised per axis and not yet in a
                      \* snapshot (pending), those of them whose live flag an
                      \* axis selection has cleared (cancelled), whether the
                      \* last executor call was given an unsafe state (unsafe),
                      \* the events raised since then (delayed), the clicks
                      \* of Universal encoders since the last executor call
                      \* (clicks), and per axis, modulo ScalePeriod, the scale
                      \* clicks since the last snapshot that held a scale
                      \* event (taps) and the scale clicks that found no
                      \* scale event pending (bursts)
    hw,               \* the environment: the samples each encoder can deliver
                      \* and the machine states the control loop passes
    out               \* what the last call did

vars == <<settings, encoder, npos, mpg, mpg_events, mpg_event, mpg_spin_lock,
          mode_chg, override_encoder, is_moving, fault, pc, loc, raised, hw, out>>

\* The globals as one record, and the assignment of such a record.
Cur ==
    [settings |-> settings, encoder |-> encoder, npos |-> npos, mpg |-> mpg,
     mpg_events |-> mpg_events, mpg_event |-> mpg_event,
     mpg_spin_lock |-> mpg_spin_lock, mode_chg |-> mode_chg,
     override_encoder |-> override_encoder, is_moving |-> is_moving,
     fault |-> fault, pc |-> pc, loc |-> loc, raised |-> raised, hw |-> hw,
     out |-> out]

Set(G) ==
    /\ settings' = G.settings
    /\ encoder' = G.encoder
    /\ npos' = G.npos
    /\ mpg' = G.mpg
    /\ mpg_events' = G.mpg_events
    /\ mpg_event' = G.mpg_event
    /\ mpg_spin_lock' = G.mpg_spin_lock
    /\ mode_chg' = G.mode_chg
    /\ override_encoder' = G.override_encoder
    /\ is_moving' = G.is_moving
    /\ fault' = G.fault
    /\ pc' = G.pc
    /\ loc' = G.loc
    /\ raised' = G.raised
    /\ hw' = G.hw
    /\ out' = G.out

\* ------------------------------------------------------------- helpers

Abs(x) == IF x < 0 THEN -x ELSE x

\* C integer division: truncation toward zero (b # 0).
CDiv(a, b) ==
    IF (a >= 0) = (b > 0) THEN Abs(a) \div Abs(b) ELSE -(Abs(a) \div Abs(b))

MIN(a, b) == IF a > b THEN b ELSE a

\* state & STATE_JOG
IsJog(state) == (state \div STATE_JOG) % 2 = 1

\* A guard that lets every machine state through.
SafeStateAlways(state) == TRUE

\* state == STATE_IDLE || (state & STATE_JOG)
SafeState(state) == state = STATE_IDLE \/ IsJog(state)

IsMPGMode(mode) ==
    mode \in {Encoder_MPG, Encoder_MPG_X, Encoder_MPG_Y, Encoder_MPG_Z}

IsOverrideMode(mode) ==
    mode \in {Encoder_FeedRate, Encoder_RapidRate, Encoder_Spindle_RPM}

\* The record "out" of a call that has done nothing yet.
NoOut(op) ==
    [op |-> op, injected |-> <<>>, submitted |-> <<>>, written |-> <<>>,
     resets |-> <<>>, handler |-> <<>>, arg |-> <<>>,
     drained |-> FALSE, delayed |-> FALSE, clicks |-> 0, axes |-> {},
     snapshot |-> [a \in Axes |-> {}], unlocked |-> {}]

\* A write to the pending mask or to a live event flag at the place site; held
\* tells whether the writer has set mpg_spin_lock (lines 431, 476) around it.
SharedWrite(G, site, held) ==
    IF held THEN G ELSE [G EXCEPT !.out.unlocked = @ \cup {site}]

Inject(G, cmd) == [G EXCEPT !.out.injected = Append(@, cmd)]
Write(G, msg) == [G EXCEPT !.out.written = Append(@, msg)]
EncoderReset(G, id) == [G EXCEPT !.out.resets = Append(@, id)]
Fault(G, what) == [G EXCEPT !.fault = @ \cup {what}]

\* reset_override (lines 201-220)
reset_override(G, mode) ==
    CASE mode = Encoder_FeedRate -> Inject(G, "CMD_OVERRIDE_FEED_RESET")
      [] mode = Encoder_RapidRate -> Inject(G, "CMD_OVERRIDE_RAPID_RESET")
      [] mode = Encoder_Spindle_RPM -> Inject(G, "CMD_OVERRIDE_SPINDLE_RESET")
      [] OTHER -> G

\* ------------------------------------------------------- the producer

\* The three loops "while(npos[id]-- != n_count)" / "while(npos[id]++ != n_count)"
\* (lines 370, 373, 408, 411): one command per unit between baseline and n_count.
RECURSIVE InjectSteps(_, _, _, _, _)
InjectSteps(G, np, n_count, step, cmd) ==
    IF np = n_count THEN G
    ELSE InjectSteps(Inject(G, cmd), np + step, n_count, step, cmd)

\* Setting an MPG event flag together with its axis bit (lines 433-437, 478-483).
RaiseEvent(G, axis, flag) ==
    IF axis \notin Axes THEN Fault(G, "mpg_index")
    ELSE [SharedWrite(G, "raise", TRUE) EXCEPT
                   !.mpg[axis].event = @ \cup {flag},
                   !.mpg_event = @ \cup {axis},
                   !.raised.pending[axis] = @ \cup {flag},
                   !.raised.cancelled[axis] = @ \ {flag},
                   !.raised.delayed[axis] =
                       IF G.raised.unsafe THEN @ \cup {flag} ELSE @,
                   !.raised.taps[axis] =
                       IF flag = "scale" THEN (@ + 1) % ScalePeriod ELSE @,
                   !.raised.bursts[axis] =
                       IF flag = "scale" /\ "scale" \notin G.mpg[axis].event
                       THEN (@ + 1) % ScalePeriod ELSE @]

\* An axis selection that does not wrap after the last axis.
EventSelectNoWrap(G, e) ==
    LET enc == G.encoder[e] IN
    IF "click" \notin enc.event THEN G
    ELSE IF G.settings[e].mode = Encoder_Universal THEN
        [G EXCEPT !.mode_chg = TRUE,
                  !.raised.clicks = MIN(@ + 1, MaxClicks),
                  !.encoder[e].event = @ \ {"click"},
                  !.encoder[e].mode =
                      IF enc.mode = Encoder_FeedRate THEN Encoder_RapidRate
                      ELSE IF enc.mode = Encoder_RapidRate THEN Encoder_Spindle_RPM
                      ELSE Encoder_FeedRate]
    ELSE IF G.settings[e].mode = Encoder_MPG THEN
        LET inc == (enc.axis + 1) % 256
            axis == inc
            G1 == [G EXCEPT !.encoder[e].axis = axis,
                            !.encoder[e].position = 0,
                            !.encoder[e].event = {},
                            !.npos[e] = 0]
        IN IF axis \notin Axes THEN Fault(G1, "mpg_index")
           ELSE EncoderReset(
                  [SharedWrite(G1, "select", FALSE) EXCEPT
                             !.mpg[axis].position = 0,
                             !.mpg[axis].event = {},
                             !.raised.cancelled[axis] = G.raised.pending[axis]], e)
    ELSE G

\* Lines 336-350: the click of a Universal encoder or of a shared MPG wheel.
EventSelect(G, e) ==
    LET enc == G.encoder[e] IN
    IF "click" \notin enc.event THEN G
    ELSE IF G.settings[e].mode = Encoder_Universal THEN
        [G EXCEPT !.mode_chg = TRUE,
                  !.raised.clicks = MIN(@ + 1, MaxClicks),
                  !.encoder[e].event = @ \ {"click"},
                  !.encoder[e].mode =
                      IF enc.mode = Encoder_FeedRate THEN Encoder_RapidRate
                      ELSE IF enc.mode = Encoder_RapidRate THEN Encoder_Spindle_RPM
                      ELSE Encoder_FeedRate]
    ELSE IF G.settings[e].mode = Encoder_MPG THEN
        LET inc == (enc.axis + 1) % 256
            axis == IF inc = N_AXIS THEN 0 ELSE inc
            G1 == [G EXCEPT !.encoder[e].axis = axis,
                            !.encoder[e].position = 0,
                            !.encoder[e].event = {},
                            !.npos[e] = 0]
        IN IF axis \notin Axes THEN Fault(G1, "mpg_index")
           ELSE EncoderReset(
                  [SharedWrite(G1, "select", FALSE) EXCEPT
                             !.mpg[axis].position = 0,
                             !.mpg[axis].event = {},
                             !.raised.cancelled[axis] = G.raised.pending[axis]], e)
    ELSE G

\* A level table that goes from Full straight to Low on a decrease.
EventRapidSkip(G, e, position, rapid_rate) ==
    LET last == G.encoder[e].position IN
    IF rapid_rate = DEFAULT_RAPID_OVERRIDE THEN
        IF position < last THEN Inject(G, "CMD_OVERRIDE_RAPID_LOW") ELSE G
    ELSE IF rapid_rate = RAPID_OVERRIDE_MEDIUM THEN
        IF position < last THEN Inject(G, "CMD_OVERRIDE_RAPID_LOW")
        ELSE Inject(G, "CMD_OVERRIDE_RAPID_RESET")
    ELSE IF rapid_rate = RAPID_OVERRIDE_LOW THEN
        IF position > last THEN Inject(G, "CMD_OVERRIDE_RAPID_MEDIUM") ELSE G
    ELSE G

\* Lines 378-403: the rapid override levels; position is the new raw position.
EventRapid(G, e, position, rapid_rate) ==
    LET last == G.encoder[e].position IN
    IF rapid_rate = DEFAULT_RAPID_OVERRIDE THEN
        IF position < last THEN Inject(G, "CMD_OVERRIDE_RAPID_MEDIUM") ELSE G
    ELSE IF rapid_rate = RAPID_OVERRIDE_MEDIUM THEN
        IF position < last THEN Inject(G, "CMD_OVERRIDE_RAPID_LOW")
        ELSE Inject(G, "CMD_OVERRIDE_RAPID_RESET")
    ELSE IF rapid_rate = RAPID_OVERRIDE_LOW THEN
        IF position > last THEN Inject(G, "CMD_OVERRIDE_RAPID_MEDIUM") ELSE G
    ELSE G

\* A deadband test that any movement passes.
DeadbandAnyMove(G, e, position) == position # G.encoder[e].position

\* abs(position - encoder->position) >= encoder->settings->cpd (line 379)
Deadband(G, e, position) ==
    Abs(position - G.encoder[e].position) >= G.settings[e].cpd

\* An MPG wheel that raises position_changed whatever the velocity is.
EventMPGMoveOnly(G, e) ==
    LET axis == G.encoder[e].axis IN
    IF axis \notin Axes THEN Fault(G, "mpg_index")
    ELSE IF G.mpg[axis].encoder = NULL THEN Fault(G, "null_encoder")
    ELSE RaiseEvent(G, axis, "position_changed")

\* Lines 429-440: an MPG wheel raises stop or position_changed for its axis.
EventMPG(G, e) ==
    LET axis == G.encoder[e].axis IN
    IF axis \notin Axes THEN Fault(G, "mpg_index")
    ELSE IF G.mpg[axis].encoder = NULL THEN Fault(G, "null_encoder")
    ELSE IF G.encoder[G.mpg[axis].encoder].velocity = 0
         THEN RaiseEvent(G, axis, "stop")
         ELSE RaiseEvent(G, axis, "position_changed")

\* A normalized count rounded to the nearest integer instead of truncated.
NCountRounded(G, e, position, garbage) ==
    IF G.settings[e].cpr = 0 THEN garbage
    ELSE LET a == position * 100
             b == G.settings[e].cpr
             q == (2 * Abs(a) + b) \div (2 * b)
         IN IF a < 0 THEN -q ELSE q

\* (position * 100L) / (int32_t)encoder->settings->cpr (line 361); a zero cpr is a
\* division by zero, whose result, where the build does not trap, is any value.
NCount(G, e, position, garbage) ==
    IF G.settings[e].cpr = 0 THEN garbage
    ELSE CDiv(position * 100, G.settings[e].cpr)

\* A position change that is dropped.
EventPositionIgnored(G, e, position, rapid_rate, garbage) ==
    [G EXCEPT !.encoder[e].event = @ \ {"position_changed"}]

\* Lines 352-450: the position change.
EventPosition(G, e, position, rapid_rate, garbage) ==
    IF "position_changed" \notin G.encoder[e].event THEN G
    ELSE
    LET n_count == NCount(G, e, position, garbage)
        G0 == IF G.settings[e].cpr = 0 THEN Fault(G, "div_by_zero") ELSE G
        G1 == [G0 EXCEPT !.encoder[e].event = @ \ {"position_changed"}]
        mode == G.encoder[e].mode
        base == G.npos[e]
        velocity == G.encoder[e].velocity
        Commit(H) == [H EXCEPT !.encoder[e].position = position,
                               !.npos[e] = n_count]
    IN
    IF ~(n_count # base \/ velocity = 0) THEN G1
    ELSE IF mode = Encoder_FeedRate THEN
        Commit(IF n_count < base
               THEN InjectSteps(G1, base, n_count, -1, "CMD_OVERRIDE_FEED_FINE_MINUS")
               ELSE InjectSteps(G1, base, n_count, 1, "CMD_OVERRIDE_FEED_FINE_PLUS"))
    ELSE IF mode = Encoder_RapidRate THEN
        IF Deadband(G1, e, position)
        THEN Commit(EventRapid(G1, e, position, rapid_rate))
        ELSE G1
    ELSE IF mode = Encoder_Spindle_RPM THEN
        Commit(IF n_count < base
               THEN InjectSteps(G1, base, n_count, -1, "CMD_OVERRIDE_SPINDLE_FINE_MINUS")
               ELSE InjectSteps(G1, base, n_count, 1, "CMD_OVERRIDE_SPINDLE_FINE_PLUS"))
    ELSE IF IsMPGMode(mode) THEN Commit(EventMPG(G1, e))
    ELSE G1

\* Lines 452-492: what is left of the event flags.
EventButtons(G, e) ==
    LET ev == G.encoder[e].event
        mode == G.encoder[e].mode
        axis == G.encoder[e].axis
        G1 == IF ev = {} THEN G
              ELSE IF IsOverrideMode(mode) THEN
                  reset_override(
                      EncoderReset([G EXCEPT !.npos[e] = 0,
                                             !.encoder[e].position = 0], e),
                      mode)
              ELSE IF IsMPGMode(mode) THEN
                  LET G2 == IF "click" \in ev THEN RaiseEvent(G, axis, "scale") ELSE G
                  IN IF "dbl_click" \in ev THEN RaiseEvent(G2, axis, "zero") ELSE G2
              ELSE G
    IN [G1 EXCEPT !.encoder[e].event = {}]

\* encoder_event (lines 332-493).  The hardware layer has stored the sample's
\* velocity and event flags in the encoder before the call.
encoder_event(G, e, ev, position, velocity, rapid_rate, garbage) ==
    LET G0 == [G EXCEPT !.encoder[e].velocity = velocity,
                        !.encoder[e].event = ev,
                        !.out = [NoOut("event") EXCEPT
                                   !.arg = <<e, ev, position, velocity, rapid_rate>>]]
    IN EventButtons(EventPosition(EventSelect(G0, e), e, position, rapid_rate, garbage), e)

\* ------------------------------------------------- the motion strategy

\* One round of the loop of mpg_jog_relative (lines 163-176).  L holds the globals
\* G and the locals velocity and words (the axis words appended to gcode; the
\* distance is kept in thousandths, as "%.3f" prints it: delta * scale_factor / 100
\* units are delta * scale_factor * 10 thousandths).
JogAxis(L, idx, garbage) ==
    LET G == L.G
        id == G.mpg[idx].encoder
    IN
    IF id = NULL THEN [L EXCEPT !.G = Fault(G, "null_encoder")]
    ELSE
    LET delta == G.mpg[idx].position - G.npos[id]
        pos_delta == delta * G.mpg[idx].scale_factor * 10
        \* mpg[idx].position = npos[idx]: the index is the axis, not the encoder
        G1 == IF idx \in Encoders
              THEN [G EXCEPT !.mpg[idx].position = G.npos[idx]]
              ELSE Fault([G EXCEPT !.mpg[idx].position = garbage], "npos_index")
        v == G.encoder[id].velocity
    IN
    IF delta = 0 THEN L
    ELSE [G |-> G1,
          velocity |-> IF L.velocity = 0 THEN v ELSE MIN(v, L.velocity),
          words |-> Append(L.words, <<idx, pos_delta>>)]

RECURSIVE JogLoop(_, _, _, _)
JogLoop(L, idx, axes, garbage) ==
    IF axes = {} THEN L
    ELSE JogLoop(IF idx \in axes THEN JogAxis(L, idx, garbage) ELSE L,
                 idx + 1, {a \in axes : a > idx}, garbage)

\* mpg_jog_relative (lines 150-197).  accept is what grbl.protocol_enqueue_gcode
\* returns if it is called.  The value returned is G.is_moving of the result.
mpg_jog_relative(G, state, axes, accept, garbage) ==
    LET L == JogLoop([G |-> G, velocity |-> 0, words |-> <<>>], 0, axes, garbage)
        emit == Len(L.words) > 0 /\ L.velocity > 0
        cmd == [text |-> <<"$J=G91", L.words, "F", L.velocity>>, accepted |-> accept]
        G1 == IF emit
              THEN [L.G EXCEPT !.out.submitted = Append(@, cmd), !.is_moving = accept]
              ELSE L.G
    IN [G1 EXCEPT !.out.handler =
            Append(@, [axes |-> axes, words |-> L.words, velocity |-> L.velocity,
                       emitted |-> emit, ret |-> G1.is_moving])]

\* ------------------------------------------------------- the consumer

\* Lines 272-281: the zero request of axis idx of the snapshot.
ExecZero(G, idx, accept) ==
    IF "zero" \notin G.mpg_events[idx] THEN G
    ELSE
    LET cmd == [text |-> <<"G90G10L20P0", idx, "0">>, accepted |-> accept]
        G1 == [G EXCEPT !.out.submitted = Append(@, cmd)]
        id == G.mpg[idx].encoder
    IN
    IF ~accept THEN G1
    ELSE IF id = NULL THEN Fault(G1, "null_encoder")
    ELSE EncoderReset([SharedWrite(G1, "zero", FALSE) EXCEPT
                                 !.mpg[idx].event = @ \ {"zero"},
                                 !.mpg[idx].position = 0,
                                 !.npos[id] = 0,
                                 !.encoder[id].position = 0], id)

\* A scale step that multiplies by ten without wrapping after 100.
ExecScaleNoWrap(G, idx) ==
    IF "scale" \notin G.mpg_events[idx] THEN G
    ELSE [G EXCEPT !.mpg[idx].scale_factor = @ * 10]

\* A scale step that stays at 100 instead of wrapping to 1.
ExecScaleStuck(G, idx) ==
    IF "scale" \notin G.mpg_events[idx] THEN G
    ELSE LET f == G.mpg[idx].scale_factor * 10
         IN [G EXCEPT !.mpg[idx].scale_factor = IF f > 100 THEN 100 ELSE f]

\* Lines 283-292.
ExecScale(G, idx) ==
    IF "scale" \notin G.mpg_events[idx] THEN G
    ELSE LET f == G.mpg[idx].scale_factor * 10
         IN [G EXCEPT !.mpg[idx].scale_factor = IF f > 100 THEN 1 ELSE f]

\* A stop that leaves the axis's position_changed in the snapshot.
ExecStopKeepsMove(G, idx) ==
    IF "stop" \notin G.mpg_events[idx] THEN G
    ELSE
    LET stop_action == G.mpg[idx].moving /\ IsJog(G.loc.state)
        G1 == IF stop_action THEN Inject(G, "CMD_JOG_CANCEL") ELSE G
    IN [G1 EXCEPT !.mpg[idx].moving = FALSE]

\* Lines 294-303.
ExecStop(G, idx) ==
    IF "stop" \notin G.mpg_events[idx] THEN G
    ELSE
    LET stop_action == G.mpg[idx].moving /\ IsJog(G.loc.state)
        G1 == IF stop_action THEN Inject(G, "CMD_JOG_CANCEL") ELSE G
    IN [G1 EXCEPT !.mpg[idx].moving = FALSE,
                  !.mpg_events[idx] = @ \ {"position_changed"}]

\* A position change that also calls the strategy for its own axis.
ExecPositionChangedPerAxis(G, idx) ==
    IF "position_changed" \notin G.mpg_events[idx] THEN G
    ELSE [G EXCEPT !.mpg[idx].moving = TRUE, !.loc.move_action = TRUE,
                   !.out.handler = Append(@, [axes |-> {idx}, words |-> <<>>,
                                              velocity |-> 0, emitted |-> FALSE,
                                              ret |-> FALSE])]

\* Lines 305-318.
ExecPositionChanged(G, idx) ==
    IF "position_changed" \notin G.mpg_events[idx] THEN G
    ELSE [G EXCEPT !.mpg[idx].moving = TRUE, !.loc.move_action = TRUE]

\* Lines 270-319: one axis of the snapshot.
ExecAxis(G, idx, accept) ==
    ExecPositionChanged(ExecStop(ExecScale(ExecZero(G, idx, accept), idx), idx), idx)

\* A mode message that names the feed rate whatever the target is.
ExecModeMessageFeed(G) == Write(G, "[MSG:Encoder mode feed rate]")

\* Lines 224-242: the mode message.
ExecModeMessage(G) ==
    LET mode == G.encoder[G.override_encoder].mode IN
    CASE mode = Encoder_FeedRate -> Write(G, "[MSG:Encoder mode feed rate]")
      [] mode = Encoder_RapidRate -> Write(G, "[MSG:Encoder mode rapid rate]")
      [] mode = Encoder_Spindle_RPM -> Write(G, "[MSG:Encoder mode spindle RPM]")
      [] OTHER -> G

\* Line 328: "mpg_event.mask |= 0; //axes.mask; // gcode was rejected, restore
\* events": the mask is or-ed with 0.
ExecRestore(G, axes) == [G EXCEPT !.mpg_event = @ \cup {}]

\* Lines 327-328: the bound strategy (mpg[0].handler is mpg_jog_relative, line 676)
\* is called once, and its result false takes the restore branch.
ExecHandler(G, accept, garbage) ==
    LET G1 == mpg_jog_relative(G, G.loc.state, G.loc.axes, accept, garbage)
    IN IF ~G1.is_moving THEN ExecRestore(G1, G.loc.axes) ELSE G1

\* The locals of a call that is not running.
NoLocals ==
    [state |-> STATE_IDLE, event |-> {}, axes |-> {}, idx |-> 0, move_action |-> FALSE]

\* The call of encoder_execute_realtime(state): the locals are set up.
ExecEnter(G, state) ==
    [G EXCEPT !.pc = "entry",
              !.loc = [NoLocals EXCEPT !.state = state],
              !.out = [NoOut("exec") EXCEPT !.arg = <<state>>,
                                            !.clicks = G.raised.clicks],
              !.raised.clicks = 0]

\* The return: the locals are gone.  The snapshot mpg_events is a static, but
\* line 264 overwrites all of it before the next read, so what it holds between
\* two calls is never read; "out" keeps the snapshot the call took and the axes
\* it visited.
ExecReturn(G) ==
    [G EXCEPT !.pc = "idle", !.loc = NoLocals,
              !.mpg_events = [a \in Axes |-> {}]]

\* One step of encoder_execute_realtime (lines 222-330); the producer can run
\* between any two steps.  acc[a] is the result of the zero submission for axis
\* a, acc[N_AXIS] that of the motion strategy's submission.
ExecStep(G, acc, garbage) ==
    LET idx == G.loc.idx IN
    CASE G.pc = "entry" ->
            IF G.mode_chg /\ G.override_encoder # NULL
            THEN [ExecModeMessage(G) EXCEPT !.pc = "mode_clr"]
            ELSE [G EXCEPT !.pc = "guard"]
      [] G.pc = "mode_clr" -> [G EXCEPT !.mode_chg = FALSE, !.pc = "guard"]
      [] G.pc = "guard" ->
            IF G.mpg_event # {} /\ SafeState(G.loc.state)
            THEN [G EXCEPT !.pc = "spin",
                           !.out.delayed =
                               \E a \in Axes :
                                  G.raised.delayed[a] \ G.raised.cancelled[a] # {},
                           !.raised.unsafe = FALSE,
                           !.raised.delayed = [a \in Axes |-> {}]]
            ELSE ExecReturn([G EXCEPT !.raised.unsafe =
                                        G.loc.state \notin {STATE_IDLE, STATE_JOG}])
      [] G.pc = "spin" ->
            IF G.mpg_spin_lock THEN G ELSE [G EXCEPT !.pc = "read"]
      [] G.pc = "read" ->
            [G EXCEPT !.loc.event = G.mpg_event, !.loc.axes = G.mpg_event,
                      !.pc = "clear_mask"]
      [] G.pc = "clear_mask" ->
            [SharedWrite(G, "clear_mask", FALSE) EXCEPT
                      !.mpg_event = {}, !.pc = "snapshot"]
      [] G.pc = "snapshot" ->
            [G EXCEPT !.mpg_events = [a \in Axes |-> G.mpg[a].event],
                      !.raised.pending =
                          [a \in Axes |-> IF a \in G.loc.event
                                          THEN @[a] \ G.mpg[a].event ELSE @[a]],
                      !.raised.cancelled =
                          [a \in Axes |-> IF a \in G.loc.event
                                          THEN @[a] \ G.mpg[a].event ELSE @[a]],
                      !.raised.taps =
                          [a \in Axes |-> IF a \in G.loc.event
                                             /\ "scale" \in G.mpg[a].event
                                          THEN 0 ELSE @[a]],
                      !.loc.idx = 0,
                      !.out.drained = TRUE,
                      !.out.axes = G.loc.axes,
                      !.out.snapshot = [a \in Axes |-> G.mpg[a].event],
                      !.pc = "axis"]
      [] G.pc = "axis" ->
            IF G.loc.event = {} THEN [G EXCEPT !.pc = "after"]
            ELSE IF idx \in G.loc.event
                 THEN [ExecAxis(G, idx, acc[idx]) EXCEPT !.pc = "clear"]
                 ELSE [G EXCEPT !.pc = "clear"]
      [] G.pc = "clear" ->
            [SharedWrite(G, "clear", FALSE) EXCEPT
                      !.mpg[idx].event = {},
                      !.loc.idx = idx + 1,
                      !.loc.event = {a \in @ : a > idx},
                      !.pc = "axis"]
      [] G.pc = "after" ->
            ExecReturn(IF G.loc.move_action
                       THEN ExecHandler(G, acc[N_AXIS], garbage) ELSE G)
      [] OTHER -> G

RECURSIVE ExecRun(_, _, _)
ExecRun(G, acc, garbage) ==
    IF G.pc = "idle" \/ (G.pc = "spin" /\ G.mpg_spin_lock) THEN G
    ELSE ExecRun(ExecStep(G, acc, garbage), acc, garbage)

\* encoder_execute_realtime (lines 222-330), run without preemption.
encoder_execute_realtime(G, state, acc, garbage) ==
    ExecRun(ExecEnter(G, state), acc, garbage)

\* ------------------------------------------------------------ settings

\* (uint32_t)value of a float value >= 0, value = whole (+ 0.5 when frac): the
\* fraction is dropped.
ToUint32(value) == value.whole

\* isintf(value)
isintf(value) == ~value.frac

\* A window test without the range.
DblClickWindowAnyInteger(value) == isintf(value)

\* isintf(value) && value >= 100.0f && value <= 900.0f (line 539)
DblClickWindowValid(value) ==
    isintf(value) /\ value.whole >= DBL_CLICK_MIN /\ value.whole <= DBL_CLICK_MAX

\* encoder_setting (lines 506-552); base_idx is setting - Setting_EncoderSettingsBase
\* of a setting inside the encoder settings range.
encoder_setting(G, base_idx, value) ==
    LET setting_idx == base_idx % ENCODER_SETTINGS_INCREMENT
        encoder_idx == (base_idx - setting_idx) \div ENCODER_SETTINGS_INCREMENT
        G0 == [G EXCEPT !.out = [NoOut("setting") EXCEPT !.arg = <<base_idx, value>>]]
        Status(H, st) == [H EXCEPT !.out.written = <<st>>]
    IN
    IF ~(encoder_idx < N_ENCODER) THEN Status(G0, "Status_Unhandled")
    ELSE IF setting_idx = Setting_EncoderMode THEN
        IF isintf(value) /\ value.whole >= Encoder_Universal
                         /\ value.whole < Encoder_Spindle_Position
        THEN Status([G0 EXCEPT !.settings[encoder_idx].mode = value.whole], "Status_OK")
        ELSE Status(G0, "Status_InvalidStatement")
    ELSE IF setting_idx = Setting_EncoderCPR THEN
        Status([G0 EXCEPT !.settings[encoder_idx].cpr = ToUint32(value)],
               "Status_OK")
    ELSE IF setting_idx = Setting_EncoderCPD THEN
        Status([G0 EXCEPT !.settings[encoder_idx].cpd = ToUint32(value)],
               "Status_OK")
    ELSE IF setting_idx = Setting_EncoderDblClickWindow THEN
        IF DblClickWindowValid(value)
        THEN Status([G0 EXCEPT !.settings[encoder_idx].dbl_click_window = value.whole],
                    "Status_OK")
        ELSE Status(G0, "Status_InvalidStatement")
    ELSE Status(G0, "Status_Unhandled")

\* encoder_settings_restore (lines 588-598)
encoder_settings_restore(G) ==
    [G EXCEPT !.settings =
                [e \in Encoders |->
                    [mode |-> Encoder_Universal, cpr |-> DEFAULT_CPR,
                     cpd |-> DEFAULT_CPD, dbl_click_window |-> DEFAULT_DBL_CLICK_WINDOW]],
              !.out = NoOut("restore")]

\* The axis an MPG mode binds (lines 625-647): Encoder_MPG and Encoder_MPG_X bind
\* X_AXIS, Encoder_MPG_Y Y_AXIS, Encoder_MPG_Z Z_AXIS.
BoundAxis(mode) ==
    IF mode = Encoder_MPG THEN 0 ELSE mode - Encoder_MPG_X

\* One round of the first loop of encoder_init (lines 611-671).
InitEncoder(G, idx) ==
    LET mode == G.settings[idx].mode
        G1 == [G EXCEPT !.encoder[idx].axis = AXIS_NONE,
                        !.encoder[idx].mode = mode]
        G2 == IF mode = Encoder_Universal THEN
                  [G1 EXCEPT !.encoder[idx].mode = Encoder_FeedRate,
                             !.override_encoder = idx]
              ELSE IF mode = Encoder_MPG THEN
                  [G1 EXCEPT !.encoder[idx].axis = 0,
                             !.mpg = [a \in Axes |-> [@[a] EXCEPT !.encoder = idx]]]
              ELSE IF IsMPGMode(mode) THEN
                  [G1 EXCEPT !.encoder[idx].axis = BoundAxis(mode),
                             !.mpg[BoundAxis(mode)].encoder = idx]
              ELSE G1
    IN EncoderReset(G2, idx)

RECURSIVE InitEncoders(_, _)
InitEncoders(G, idx) ==
    IF idx = N_ENCODER THEN G ELSE InitEncoders(InitEncoder(G, idx), idx + 1)

\* encoder_init (lines 600-678)
encoder_init(G) ==
    LET G1 == InitEncoders([G EXCEPT !.override_encoder = NULL,
                                     !.out = NoOut("init")], 0)
    IN [G1 EXCEPT !.mpg = [a \in Axes |-> [@[a] EXCEPT !.scale_factor = 1]]]

\* The zero-initialised statics (lines 83-90) and the driver's encoder array.
Zero ==
    [settings |-> [e \in Encoders |->
                     [mode |-> 0, cpr |-> 0, cpd |-> 0, dbl_click_window |-> 0]],
     encoder |-> [e \in Encoders |->
                     [mode |-> 0, axis |-> 0, position |-> 0, velocity |-> 0,
                      event |-> {}]],
     npos |-> [e \in Encoders |-> 0],
     mpg |-> [a \in Axes |->
                [position |-> 0, event |-> {}, moving |-> FALSE,
                 scale_factor |-> 0, encoder |-> NULL]],
     mpg_events |-> [a \in Axes |-> {}],
     mpg_event |-> {},
     mpg_spin_lock |-> FALSE,
     mode_chg |-> FALSE,
     override_encoder |-> NULL,
     is_moving |-> FALSE,
     fault |-> {},
     pc |-> "idle",
     loc |-> NoLocals,
     raised |-> [pending |-> [a \in Axes |-> {}], cancelled |-> [a \in Axes |-> {}],
                 unsafe |-> FALSE, delayed |-> [a \in Axes |-> {}], clicks |-> 0,
                 taps |-> [a \in Axes |-> 0], bursts |-> [a \in Axes |-> 0]],
     hw |-> [samples |-> [e \in Encoders |->
                           [kinds |-> {}, velocities |-> {}, positions |-> {}]],
             states |-> {}],
     out |-> NoOut("boot")]

\* The float values n and n + 0.5.
Whole(n) == [whole |-> n, frac |-> FALSE]
Half(n) == [whole |-> n, frac |-> TRUE]

\* Start-up: the defaults are restored, the stored settings in cfg (a sequence of
\* <<base_idx, value>>) are applied, and encoder_init binds the encoders.
RECURSIVE ApplySettings(_, _)
ApplySettings(G, cfg) ==
    IF cfg = <<>> THEN G
    ELSE ApplySettings(encoder_setting(G, cfg[1][1], Whole(cfg[1][2])), Tail(cfg))

Boot(cfg) ==
    [encoder_init(ApplySettings(encoder_settings_restore(Zero), cfg.stored))
       EXCEPT !.hw = [samples |-> cfg.hw, states |-> cfg.states]]

InitFrom(G) ==
    /\ settings = G.settings
    /\ encoder = G.encoder
    /\ npos = G.npos
    /\ mpg = G.mpg
    /\ mpg_events = G.mpg_events
    /\ mpg_event = G.mpg_event
    /\ mpg_spin_lock = G.mpg_spin_lock
    /\ mode_chg = G.mode_chg
    /\ override_encoder = G.override_encoder
    /\ is_moving = G.is_moving
    /\ fault = G.fault
    /\ pc = G.pc
    /\ loc = G.loc
    /\ raised = G.raised
    /\ hw = G.hw
    /\ out = G.out

\* setting - Setting_EncoderSettingsBase of the mode of encoder e
ModeOf(e) == e * ENCODER_SETTINGS_INCREMENT + Setting_EncoderMode
CprOf(e) == e * ENCODER_SETTINGS_INCREMENT + Setting_EncoderCPR
CpdOf(e) == e * ENCODER_SETTINGS_INCREMENT + Setting_EncoderCPD
DblClickWindowOf(e) == e * ENCODER_SETTINGS_INCREMENT + Setting_EncoderDblClickWindow

\* The event flags a sample can carry.
EventSets == (SUBSET {"click", "dbl_click", "position_changed"}) \ {{}}
Turns == {{"position_changed"}}

\* The hardware of an encoder: the event flags, the velocities and the raw
\* positions of its samples.
Wired(kinds, velocities, positions) ==
    [kinds |-> kinds, velocities |-> velocities, positions |-> positions]
NotWired == Wired({}, {}, {})

\* Raw positions of an override wheel, and of an MPG wheel: an MPG encoder uses
\* only position * 100 / cpr, so one raw position per count stands for the
\* others.  Where several axes are driven, the wheels go one count forward.
Positions == (-MaxPos) .. MaxPos
Counts == {k * (DEFAULT_CPR \div 100) : k \in (-MaxCount) .. MaxCount}
ForwardCounts == {0, DEFAULT_CPR \div 100}

\* The machines the runs start from: the machine states the control loop passes,
\* the stored settings (applied at start-up, on top of the restored defaults) and
\* the hardware of each encoder.
FeedWheel ==
    [states |-> {STATE_IDLE},
     stored |-> << <<ModeOf(0), Encoder_FeedRate>> >>,
     hw |-> (0 :> Wired(EventSets, {0, 10}, Positions) @@ 1 :> NotWired)]
RapidWheel ==
    [states |-> {STATE_IDLE},
     stored |-> << <<ModeOf(1), Encoder_RapidRate>> >>,
     hw |-> (0 :> NotWired @@ 1 :> Wired(EventSets, {0, 10}, Positions))]
RapidNoDetent ==
    [states |-> {STATE_IDLE},
     stored |-> << <<ModeOf(1), Encoder_RapidRate>>, <<CprOf(1), 200>>,
                   <<CpdOf(1), 0>> >>,
     hw |-> (0 :> NotWired @@ 1 :> Wired(EventSets, {0, 10}, Positions))]
UniversalWheel ==
    [states |-> {STATE_IDLE, STATE_CYCLE},
     stored |-> << <<ModeOf(0), Encoder_Spindle_RPM>> >>,
     hw |-> (0 :> NotWired @@ 1 :> Wired(EventSets, {0, 10}, Positions))]
UniversalPair ==
    [states |-> {STATE_IDLE},
     stored |-> <<>>,
     hw |-> [e \in Encoders |-> Wired({{"click"}}, {0}, {0})]]
SharedWheel ==
    [states |-> {STATE_IDLE, STATE_CYCLE},
     stored |-> << <<ModeOf(0), Encoder_MPG>> >>,
     hw |-> (0 :> Wired({{"position_changed"}, {"click"}, {"click", "position_changed"}},
                        {10}, ForwardCounts)
             @@ 1 :> NotWired)]
TwoWheels ==
    [states |-> {STATE_IDLE, STATE_JOG},
     stored |-> << <<ModeOf(0), Encoder_MPG_X>>, <<ModeOf(1), Encoder_MPG_Y>> >>,
     hw |-> (0 :> Wired(Turns, {0, 10}, ForwardCounts)
             @@ 1 :> Wired(Turns, {0, 5, 20}, ForwardCounts))]
AxisWheel ==
    [states |-> MachineStates,
     stored |-> << <<ModeOf(1), Encoder_MPG_X>> >>,
     hw |-> (0 :> NotWired
             @@ 1 :> Wired({{"position_changed"}, {"click"}, {"dbl_click"},
                            {"click", "position_changed"}}, {0, 10}, Counts))]

PreemptedWheel ==
    [states |-> {STATE_IDLE, STATE_JOG},
     stored |-> << <<ModeOf(0), Encoder_MPG_X>> >>,
     hw |-> (0 :> Wired({{"position_changed"}, {"dbl_click"}},
                        {0, 10}, ForwardCounts)
             @@ 1 :> NotWired)]
ConfiguredWheels ==
    [states |-> {STATE_IDLE},
     stored |-> <<>>,
     hw |-> (0 :> Wired(Turns, {10}, ForwardCounts) @@ 1 :> NotWired)]

OverrideMachines ==
    {FeedWheel, RapidWheel, RapidNoDetent, UniversalWheel, UniversalPair}
MPGMachines == {SharedWheel, TwoWheels, AxisWheel}

\* ------------------------------------------------------------- actions

\* A sample arrives: the hardware layer calls encoder_event.  The position is
\* read only when the sample carries position_changed, the rapid level only by a
\* RapidRate encoder, and the garbage only by a division by zero; where the
\* call does not read an input, one value stands for all.
EncoderEvent ==
    /\ pc = "idle"
    /\ fault = {}
    /\ \E e \in Encoders :
       \E ev \in hw.samples[e].kinds, velocity \in hw.samples[e].velocities :
       \E position \in (IF "position_changed" \in ev THEN hw.samples[e].positions ELSE {0}) :
       \E rapid_rate \in (IF "position_changed" \in ev
                             /\ encoder[e].mode = Encoder_RapidRate
                          THEN RapidLevels ELSE {DEFAULT_RAPID_OVERRIDE}) :
       \E garbage \in (IF settings[e].cpr = 0 THEN Garbage ELSE {0}) :
          Set(encoder_event(Cur, e, ev, position, velocity, rapid_rate, garbage))

\* What the submissions of a pass can return: acc[a] for the zero request of axis
\* a, acc[N_AXIS] for the motion command; TRUE where nothing can be submitted.
Accepts ==
    { acc \in [0 .. N_AXIS -> BOOLEAN] :
        /\ \A a \in Axes : "zero" \notin mpg[a].event => acc[a]
        /\ (\A a \in Axes : "position_changed" \notin mpg[a].event) => acc[N_AXIS] }

\* The control loop calls encoder_execute_realtime and the call runs to its end.
ExecuteRealtime ==
    /\ pc = "idle"
    /\ fault = {}
    /\ \E state \in hw.states, acc \in Accepts :
       \E garbage \in (IF mpg_event \subseteq Encoders THEN {0} ELSE Garbage) :
          Set(encoder_execute_realtime(Cur, state, acc, garbage))

\* The runs of the MPG wheels.
Init == \E cfg \in MPGMachines : InitFrom(Boot(cfg))

Next == EncoderEvent \/ ExecuteRealtime

Spec == Init /\ [][Next]_vars

\* The runs of the override wheels.
InitOverride == \E cfg \in OverrideMachines : InitFrom(Boot(cfg))

SpecOverride == InitOverride /\ [][Next]_vars

\* ------------------------------------------- the preempted control loop

\* The control loop calls encoder_execute_realtime.
ExecCall ==
    /\ pc = "idle"
    /\ fault = {}
    /\ \E state \in hw.states : Set(ExecEnter(Cur, state))

\* The call advances by one step.
ExecAdvance ==
    /\ pc # "idle"
    /\ fault = {}
    /\ \E acc \in Accepts : Set(ExecStep(Cur, acc, 0))

\* The encoder interrupt preempts the call between two of its steps and
\* encoder_event runs to its end; "out" stays that of the preempted call.
EncoderInterrupt ==
    /\ pc # "idle"
    /\ fault = {}
    /\ \E e \in Encoders :
       \E ev \in hw.samples[e].kinds, velocity \in hw.samples[e].velocities :
       \E position \in (IF "position_changed" \in ev THEN hw.samples[e].positions ELSE {0}) :
          Set([encoder_event(Cur, e, ev, position, velocity, DEFAULT_RAPID_OVERRIDE, 0)
                 EXCEPT !.out = out])

InitPreempt == InitFrom(Boot(PreemptedWheel))

NextPreempt == EncoderEvent \/ ExecCall \/ ExecAdvance \/ EncoderInterrupt

SpecPreempt == InitPreempt /\ [][NextPreempt]_vars

\* ------------------------------------------------- the settings in use

\* The settings and the values a settings change is made with.
SettingIds ==
    {ModeOf(0), CprOf(0), CpdOf(0), DblClickWindowOf(0), ModeOf(N_ENCODER)}
SettingValues(base_idx) ==
    LET setting_idx == base_idx % ENCODER_SETTINGS_INCREMENT IN
    IF setting_idx = Setting_EncoderMode
    THEN {Whole(Encoder_Universal), Whole(Encoder_MPG_Z),
          Whole(Encoder_Spindle_Position), Half(Encoder_FeedRate)}
    ELSE IF setting_idx = Setting_EncoderDblClickWindow
    THEN {Whole(DBL_CLICK_MIN \div 2), Whole(DBL_CLICK_MIN), Whole(DBL_CLICK_MAX),
          Whole(DBL_CLICK_MAX + 1), Half(DEFAULT_DBL_CLICK_WINDOW)}
    ELSE {Whole(0), Half(0), Whole(DEFAULT_CPR)}

\* The settings subsystem calls encoder_setting.
ChangeSetting ==
    /\ pc = "idle"
    /\ fault = {}
    /\ \E base_idx \in SettingIds :
       \E value \in SettingValues(base_idx) :
          Set(encoder_setting(Cur, base_idx, value))

\* The settings subsystem calls encoder_settings_restore.
RestoreSettings ==
    /\ pc = "idle"
    /\ fault = {}
    /\ Set(encoder_settings_restore(Cur))

\* The controller restarts: the statics are zero again, the settings are kept and
\* the driver calls encoder_init.
Restart ==
    /\ pc = "idle"
    /\ fault = {}
    /\ Set([encoder_init([Zero EXCEPT !.settings = settings]) EXCEPT !.hw = hw])

InitSettings == InitFrom(Boot(ConfiguredWheels))

NextSettings ==
    EncoderEvent \/ ExecuteRealtime \/ ChangeSetting \/ RestoreSettings \/ Restart

SpecSettings == InitSettings /\ [][NextSettings]_vars

\* ------------------------------------------------------------ properties

\* The last call was encoder_event for encoder e with a sample that carries a
\* position change and no click; o is "out".
IsTurn(o, e) ==
    o.op = "event" /\ o.arg[1] = e /\ o.arg[2] = {"position_changed"}

Count(seq, x) == Cardinality({i \in 1 .. Len(seq) : seq[i] = x})

\* a / b rounded to the nearest integer, halves away from zero (b > 0).
Round(a, b) ==
    LET q == (2 * Abs(a) + b) \div (2 * b) IN IF a < 0 THEN -q ELSE q

\* The events of axis a that were raised, are in no snapshot yet and were not
\* cleared by an axis selection.
StillPending(a) == raised.pending[a] \ raised.cancelled[a]

\* Every such event has its live flag and its axis bit set.
Kept ==
    \A a \in Axes :
        /\ StillPending(a) \subseteq mpg[a].event
        /\ StillPending(a) # {} => a \in mpg_event

\* The events of axis a raised since a call with an unsafe state that an axis
\* selection has not cleared.
Delayed(a) == raised.delayed[a] \ raised.cancelled[a]

\* Every such event has its live flag and its axis bit set.
DelayedKept ==
    \A a \in Axes :
        /\ Delayed(a) \subseteq mpg[a].event
        /\ Delayed(a) # {} => a \in mpg_event

\* The same of every event raised since a call with an unsafe state.
DelayedKeptAll ==
    \A a \in Axes :
        /\ raised.delayed[a] \subseteq mpg[a].event
        /\ raised.delayed[a] # {} => a \in mpg_event

\* The part of C1 about the calls made with an unsafe state.
UnsafeCallIdle ==
    /\ out'.submitted = <<>>
    /\ out'.injected = <<>>
    /\ out'.handler = <<>>
    /\ mpg_event' = mpg_event
    /\ \A a \in Axes : mpg'[a].event = mpg[a].event

\* C1 (as amended): a call of encoder_execute_realtime with a state that is
\* neither Idle nor Jogging submits nothing, injects nothing, does not call the
\* motion strategy and leaves the pending mask and the per-axis event flags
\* unchanged; an event raised while the state was unsafe (after such a call and
\* before the next call with a safe state), unless an axis selection click of
\* the shared wheel has cleared the flags of its axis since, keeps its live flag
\* and its axis bit, and the first call made with a safe state visits its axis
\* with the event in the snapshot.
C1_GuardDelays ==
    [][ /\ out'.op = "exec" =>
            IF out'.arg[1] \notin {STATE_IDLE, STATE_JOG}
            THEN UnsafeCallIdle
            ELSE \A a \in Axes :
                    Delayed(a) # {} =>
                       /\ out'.drained
                       /\ a \in out'.axes
                       /\ Delayed(a) \subseteq out'.snapshot[a]
        /\ DelayedKept' ]_vars

\* C1 witness: the first pass made with a safe state after a call with an unsafe
\* state took the events raised in between into its snapshot.
C1_Witness ==
    /\ out.op = "exec"
    /\ out.delayed
    /\ out.drained
    /\ \E a \in out.axes : out.snapshot[a] # {}

\* C1 as stated: the same of every event raised while the state was unsafe.
C1_NeverDrops ==
    [][ /\ out'.op = "exec" =>
            IF out'.arg[1] \notin {STATE_IDLE, STATE_JOG}
            THEN UnsafeCallIdle
            ELSE \A a \in Axes :
                    raised.delayed[a] # {} =>
                       /\ out'.drained
                       /\ a \in out'.axes
                       /\ raised.delayed[a] \subseteq out'.snapshot[a]
        /\ DelayedKeptAll' ]_vars

\* C2: with the producer preempting the pass between any two of its steps, when
\* the pass has returned every event raised and in no snapshot of a pass is
\* still pending: its live flag and its axis bit are set.
C2_NoLostEvent == pc = "idle" => Kept

\* C3: after a pass in which the motion strategy submitted a command that was
\* rejected, the axes it was called for are set in the pending mask again, with
\* their position_changed flags.
C3_RejectedMotionRestored ==
    out.op = "exec" =>
        \A i \in 1 .. Len(out.handler) :
            (out.handler[i].emitted /\ ~out.handler[i].ret) =>
                \A a \in out.handler[i].axes :
                    "position_changed" \in out.snapshot[a] =>
                        /\ a \in mpg_event
                        /\ "position_changed" \in mpg[a].event

\* C4: after a pass whose set-position-to-zero command for an axis was rejected,
\* the zero request of the axis is still pending.
C4_RejectedZeroKept ==
    out.op = "exec" =>
        \A i \in 1 .. Len(out.submitted) :
            (out.submitted[i].text[1] = "G90G10L20P0" /\ ~out.submitted[i].accepted) =>
                /\ "zero" \in mpg[out.submitted[i].text[2]].event
                /\ out.submitted[i].text[2] \in mpg_event

\* C5: in a pass whose snapshot holds a stop for an axis, the axis's moving flag
\* is cleared; the motion strategy is called (once) exactly when some visited
\* axis has position_changed without stop in the snapshot, so an axis with a stop
\* does not cause the call whatever else its snapshot holds; and one jog-cancel
\* is injected for each stopped axis that was moving when the state is Jogging,
\* and none otherwise.
C5_StopDominates ==
    [][ (out'.op = "exec" /\ out'.drained) =>
          LET Stopped == {a \in out'.axes : "stop" \in out'.snapshot[a]}
              Movers == {a \in out'.axes :
                            /\ "position_changed" \in out'.snapshot[a]
                            /\ "stop" \notin out'.snapshot[a]}
              Cancels == {a \in Stopped : mpg[a].moving /\ out'.arg[1] = STATE_JOG}
          IN /\ \A a \in Stopped : ~mpg'[a].moving
             /\ Len(out'.handler) = (IF Movers = {} THEN 0 ELSE 1)
             /\ Count(out'.injected, "CMD_JOG_CANCEL") = Cardinality(Cancels)
             /\ Len(out'.injected) = Cardinality(Cancels) ]_vars

\* C5 witness: a pass in the Jogging state whose snapshot holds stop and
\* position_changed for a moving axis has injected a jog-cancel and has not
\* called the motion strategy.
C5_Witness ==
    /\ out.op = "exec"
    /\ out.arg[1] = STATE_JOG
    /\ \E a \in out.axes : {"stop", "position_changed"} \subseteq out.snapshot[a]
    /\ out.injected = <<"CMD_JOG_CANCEL">>
    /\ out.handler = <<>>

\* C6: no accepted settings change, restart, sample or pass meets a fatal
\* condition (a division by a zero cpr, an index outside npos[] or mpg[], the
\* use of a null encoder).
C6_NoFatalCondition == fault = {}

\* C7 (as amended): for a sample with a position change and no click of an
\* encoder in FeedRate or SpindleRPM mode with cpr > 0, and n the quotient
\* position * 100 / cpr truncated toward zero: if n differs from the baseline or
\* the velocity is 0, |n - baseline| fine-step commands are injected, all "fine
\* plus" when n is above the baseline and all "fine minus" when it is below, and
\* afterwards the baseline is n and the committed position the sample's; if n
\* equals the baseline and the velocity is not 0, nothing is injected and neither
\* the baseline nor the committed position changes.
C7_FineSteps ==
    [][ \A e \in Encoders :
          (/\ IsTurn(out', e)
           /\ encoder[e].mode \in {Encoder_FeedRate, Encoder_Spindle_RPM}
           /\ settings[e].cpr > 0) =>
             LET position == out'.arg[3]
                 velocity == out'.arg[4]
                 n == CDiv(position * 100, settings[e].cpr)
                 feed == encoder[e].mode = Encoder_FeedRate
                 plus == IF feed THEN "CMD_OVERRIDE_FEED_FINE_PLUS"
                         ELSE "CMD_OVERRIDE_SPINDLE_FINE_PLUS"
                 minus == IF feed THEN "CMD_OVERRIDE_FEED_FINE_MINUS"
                          ELSE "CMD_OVERRIDE_SPINDLE_FINE_MINUS"
             IN IF n # npos[e] \/ velocity = 0
                THEN /\ Len(out'.injected) = Abs(n - npos[e])
                     /\ \A i \in 1 .. Len(out'.injected) :
                           out'.injected[i] = (IF n > npos[e] THEN plus ELSE minus)
                     /\ npos'[e] = n
                     /\ encoder'[e].position = position
                ELSE /\ out'.injected = <<>>
                     /\ npos'[e] = npos[e]
                     /\ encoder'[e].position = encoder[e].position ]_vars

\* C7 witness: a sample took a FeedRate encoder two counts down: two "fine
\* minus" commands, and the sample's position is committed.
C7_Witness ==
    /\ out.op = "event"
    /\ out.arg[2] = {"position_changed"}
    /\ out.injected = <<"CMD_OVERRIDE_FEED_FINE_MINUS", "CMD_OVERRIDE_FEED_FINE_MINUS">>
    /\ encoder[out.arg[1]].position = out.arg[3]

\* C7 as stated: the number of commands is |round(delta * 100 / cpr)| with delta
\* the change from the committed raw position, their direction is the sign of
\* delta, and afterwards the baseline and the committed position are the
\* sample's.
C7_RoundedDelta ==
    [][ \A e \in Encoders :
          (/\ IsTurn(out', e)
           /\ encoder[e].mode \in {Encoder_FeedRate, Encoder_Spindle_RPM}
           /\ settings[e].cpr > 0) =>
             LET position == out'.arg[3]
                 delta == position - encoder[e].position
                 feed == encoder[e].mode = Encoder_FeedRate
                 plus == IF feed THEN "CMD_OVERRIDE_FEED_FINE_PLUS"
                         ELSE "CMD_OVERRIDE_SPINDLE_FINE_PLUS"
                 minus == IF feed THEN "CMD_OVERRIDE_FEED_FINE_MINUS"
                          ELSE "CMD_OVERRIDE_SPINDLE_FINE_MINUS"
             IN /\ Len(out'.injected) = Abs(Round(delta * 100, settings[e].cpr))
                /\ \A i \in 1 .. Len(out'.injected) :
                      out'.injected[i] = (IF delta > 0 THEN plus ELSE minus)
                /\ npos'[e] = CDiv(position * 100, settings[e].cpr)
                /\ encoder'[e].position = position ]_vars

\* C8: a sample with a position change and no click of an encoder in RapidRate
\* mode whose distance from the committed position is below cpd injects nothing
\* and changes neither the committed position nor the baseline.
C8_Deadband ==
    [][ \A e \in Encoders :
          (/\ IsTurn(out', e)
           /\ encoder[e].mode = Encoder_RapidRate
           /\ Abs(out'.arg[3] - encoder[e].position) < settings[e].cpd) =>
             /\ out'.injected = <<>>
             /\ encoder'[e].position = encoder[e].position
             /\ npos'[e] = npos[e] ]_vars

\* C8 witness: a RapidRate encoder got a sample at velocity 0 that moved it by
\* less than cpd while the level was Medium, and nothing happened.
C8_Witness ==
    /\ out.op = "event"
    /\ out.arg[2] = {"position_changed"}
    /\ encoder[out.arg[1]].mode = Encoder_RapidRate
    /\ out.arg[3] # encoder[out.arg[1]].position
    /\ Abs(out.arg[3] - encoder[out.arg[1]].position) < settings[out.arg[1]].cpd
    /\ out.arg[4] = 0
    /\ out.arg[5] = RAPID_OVERRIDE_MEDIUM
    /\ out.injected = <<>>

\* The command of the level table for the level rate and the move from last to
\* position: the level below on a decrease, the level above on an increase.
RapidTable(rate, last, position, still) ==
    IF rate = DEFAULT_RAPID_OVERRIDE THEN
        IF position < last THEN <<"CMD_OVERRIDE_RAPID_MEDIUM">> ELSE <<>>
    ELSE IF rate = RAPID_OVERRIDE_MEDIUM THEN
        IF position < last THEN <<"CMD_OVERRIDE_RAPID_LOW">>
        ELSE IF position > last \/ still THEN <<"CMD_OVERRIDE_RAPID_RESET">>
        ELSE <<>>
    ELSE IF position > last THEN <<"CMD_OVERRIDE_RAPID_MEDIUM">> ELSE <<>>

\* C9 (as amended): for a sample with a position change and no click of an
\* encoder in RapidRate mode with cpr > 0 whose distance from the committed
\* position is at least cpd: if position * 100 / cpr differs from the baseline
\* or the velocity is 0, the table applies (from Full a decrease requests Medium;
\* from Medium a decrease requests Low and anything else, an unchanged position
\* included, requests Full; from Low an increase requests Medium; nothing
\* otherwise), with at most one command, and the committed position and the
\* baseline become the sample's; else nothing is injected or committed.
C9_RapidTable ==
    [][ \A e \in Encoders :
          (/\ IsTurn(out', e)
           /\ encoder[e].mode = Encoder_RapidRate
           /\ settings[e].cpr > 0
           /\ Abs(out'.arg[3] - encoder[e].position) >= settings[e].cpd) =>
             LET position == out'.arg[3]
                 n == CDiv(position * 100, settings[e].cpr)
             IN IF n # npos[e] \/ out'.arg[4] = 0
                THEN /\ out'.injected =
                          RapidTable(out'.arg[5], encoder[e].position, position, TRUE)
                     /\ encoder'[e].position = position
                     /\ npos'[e] = n
                ELSE /\ out'.injected = <<>>
                     /\ encoder'[e].position = encoder[e].position
                     /\ npos'[e] = npos[e] ]_vars

\* C9 witness: at level Medium a sample beyond the deadband went down: Low is
\* requested and the sample's position committed.
C9_Witness ==
    /\ out.op = "event"
    /\ out.arg[2] = {"position_changed"}
    /\ encoder[out.arg[1]].mode = Encoder_RapidRate
    /\ out.arg[5] = RAPID_OVERRIDE_MEDIUM
    /\ out.injected = <<"CMD_OVERRIDE_RAPID_LOW">>
    /\ encoder[out.arg[1]].position = out.arg[3]

\* C9 as stated: every sample whose distance from the committed position is at
\* least cpd applies the table and commits its position.
C9_EverySample ==
    [][ \A e \in Encoders :
          (/\ IsTurn(out', e)
           /\ encoder[e].mode = Encoder_RapidRate
           /\ settings[e].cpr > 0
           /\ Abs(out'.arg[3] - encoder[e].position) >= settings[e].cpd) =>
             /\ out'.injected =
                  RapidTable(out'.arg[5], encoder[e].position, out'.arg[3], FALSE)
             /\ encoder'[e].position = out'.arg[3] ]_vars

\* C10: every axis word of the relative jog command a pass submits has the
\* distance (new normalized count - last commanded count) * scale_factor / 100,
\* here in thousandths: positive for a positive tick delta.
C10_JogDistance ==
    [][ out'.op = "exec" =>
          \A i \in 1 .. Len(out'.handler) :
          \A j \in 1 .. Len(out'.handler[i].words) :
             LET idx == out'.handler[i].words[j][1]
                 distance == out'.handler[i].words[j][2]
             IN distance = (npos[mpg[idx].encoder] - mpg[idx].position)
                              * mpg'[idx].scale_factor * 10 ]_vars

\* C11: after a pass whose motion command was rejected or not emitted, every
\* axis the strategy found a nonzero delta for has kept that delta: its
\* committed tick count was not advanced to the encoder's normalized count.
C11_RejectedDeltaKept ==
    [][ out'.op = "exec" =>
          \A i \in 1 .. Len(out'.handler) :
             ~(out'.handler[i].emitted /\ out'.handler[i].ret) =>
                \A j \in 1 .. Len(out'.handler[i].words) :
                   LET idx == out'.handler[i].words[j][1]
                   IN /\ mpg'[idx].position = mpg[idx].position
                      /\ mpg'[idx].position # npos'[mpg'[idx].encoder] ]_vars

\* C12: a call of the motion strategy that submits no command returns false,
\* whatever an earlier call returned; and it submits a command exactly when some
\* axis of the mask has a nonzero distance and the feed rate found is not zero.
C12_NoCommandNotMoving ==
    out.op = "exec" =>
        \A i \in 1 .. Len(out.handler) :
            /\ out.handler[i].emitted
                  <=> (out.handler[i].words # <<>> /\ out.handler[i].velocity > 0)
            /\ ~out.handler[i].emitted => ~out.handler[i].ret

\* The target after mode in the cycle FeedRate -> RapidRate -> SpindleRPM ->
\* FeedRate, and the notification that names a target.
NextTarget(mode) ==
    IF mode = Encoder_FeedRate THEN Encoder_RapidRate
    ELSE IF mode = Encoder_RapidRate THEN Encoder_Spindle_RPM
    ELSE Encoder_FeedRate

TargetMessage(mode) ==
    IF mode = Encoder_FeedRate THEN "[MSG:Encoder mode feed rate]"
    ELSE IF mode = Encoder_RapidRate THEN "[MSG:Encoder mode rapid rate]"
    ELSE "[MSG:Encoder mode spindle RPM]"

\* C13 (as amended): every click of a Universal encoder advances its target one
\* step in the cycle and sets the mode-changed flag; an executor pass that
\* follows one or more such clicks since the previous pass writes exactly one
\* notification, naming the current target of the last Universal encoder, and
\* clears the flag; a pass that follows no click writes none.
C13_ModeNotification ==
    [][ /\ \A e \in Encoders :
              (/\ out'.op = "event"
               /\ out'.arg[1] = e
               /\ "click" \in out'.arg[2]
               /\ settings[e].mode = Encoder_Universal) =>
                  /\ encoder'[e].mode = NextTarget(encoder[e].mode)
                  /\ mode_chg'
        /\ out'.op = "exec" =>
              /\ out'.written =
                    (IF raised.clicks > 0
                     THEN <<TargetMessage(encoder[override_encoder].mode)>>
                     ELSE <<>>)
              /\ ~mode_chg' ]_vars

\* C13 witness: a pass that followed three clicks wrote one notification, and
\* the target is FeedRate again.
C13_Witness ==
    /\ out.op = "exec"
    /\ out.clicks = MaxClicks
    /\ out.written = <<"[MSG:Encoder mode feed rate]">>

\* C13 as stated: a pass writes one notification for each click since the
\* previous pass.
C13_OnePerClick ==
    [][ out'.op = "exec" => Len(out'.written) = raised.clicks ]_vars

\* The scale factor after f in the cycle 1 -> 10 -> 100 -> 1.
NextScale(f) == IF f = 1 THEN 10 ELSE IF f = 10 THEN 100 ELSE 1

\* C14: the scale_factor of every MPG axis slot is 1, 10 or 100; a pass whose
\* snapshot holds a scale event for a visited axis moves the axis's scale_factor
\* one step in the cycle 1 -> 10 -> 100 -> 1, and no other call changes it.
C14_ScaleCycle ==
    [][ \A a \in Axes :
          /\ mpg[a].scale_factor \in {1, 10, 100}
          /\ mpg'[a].scale_factor \in {1, 10, 100}
          /\ mpg'[a].scale_factor =
                (IF /\ out'.op = "exec"
                    /\ out'.drained
                    /\ a \in out'.axes
                    /\ "scale" \in out'.snapshot[a]
                 THEN NextScale(mpg[a].scale_factor)
                 ELSE mpg[a].scale_factor) ]_vars

\* C14 witness: a pass with a scale event for an axis took its scale_factor from
\* 100 back to 1.
C14_Witness ==
    /\ out.op = "exec"
    /\ \E a \in out.axes :
          /\ "scale" \in out.snapshot[a]
          /\ mpg[a].scale_factor = 1

RECURSIVE ScaleAfter(_, _)
\* The scale factor k steps after f in the cycle.
ScaleAfter(f, k) == IF k = 0 THEN f ELSE ScaleAfter(NextScale(f), k - 1)

\* C15 (as amended): the scale clicks of a per-axis wheel that arrive while a
\* scale event of the axis is already pending share that event, and the pass
\* that drains it advances the cycle by one step: once no scale event is
\* pending, scale_factor is its starting value advanced by the number of clicks
\* that found no scale event pending, so it is back at the start when that
\* number is a multiple of three (fifteen clicks with a pass after each).
C15_ScalePerBurst ==
    \A a \in Axes :
        "scale" \notin mpg[a].event =>
            mpg[a].scale_factor = ScaleAfter(1, raised.bursts[a])

\* C15 witness: three clicks, each drained before the next, and the axis's
\* scale_factor is at its starting value again.
C15_Witness ==
    /\ out.op = "exec"
    /\ \E a \in out.axes :
          /\ "scale" \in out.snapshot[a]
          /\ "scale" \notin mpg[a].event
          /\ raised.bursts[a] = 0
          /\ mpg[a].scale_factor = 1

\* C15 as stated: each click advances the cycle by exactly one step, so the pass
\* that drains the scale event of an axis advances the axis's scale_factor by
\* the number of clicks since the last such pass.
C15_StepPerClick ==
    [][ \A a \in Axes :
          (/\ out'.op = "exec"
           /\ out'.drained
           /\ a \in out'.axes
           /\ "scale" \in out'.snapshot[a]) =>
              mpg'[a].scale_factor = ScaleAfter(mpg[a].scale_factor, raised.taps[a]) ]_vars

\* The last call was encoder_setting for the setting setting_idx of an encoder
\* slot that exists; o is "out".
IsSetting(o, setting_idx) ==
    /\ o.op = "setting"
    /\ o.arg[1] % ENCODER_SETTINGS_INCREMENT = setting_idx
    /\ o.arg[1] \div ENCODER_SETTINGS_INCREMENT < N_ENCODER

\* C16: encoder_setting of an encoder's dbl_click_window with an integer value in
\* 100..900 stores the value in that slot, changes nothing else and returns OK;
\* with any other value (50, 901, 500.5) it returns the invalid-value status and
\* leaves every stored field of every encoder slot unchanged.
C16_DblClickWindow ==
    [][ IsSetting(out', Setting_EncoderDblClickWindow) =>
          LET e == out'.arg[1] \div ENCODER_SETTINGS_INCREMENT
              value == out'.arg[2]
          IN IF ~value.frac /\ value.whole \in 100 .. 900
             THEN /\ settings' = [settings EXCEPT ![e].dbl_click_window = value.whole]
                  /\ out'.written = <<"Status_OK">>
             ELSE /\ settings' = settings
                  /\ out'.written = <<"Status_InvalidStatement">> ]_vars

\* C16 witness: the window of encoder 0 was set to 900 and then to 50: the
\* call returned the invalid-value status and 900 is still stored.
C16_Witness ==
    /\ out.op = "setting"
    /\ out.arg = <<DblClickWindowOf(0), Whole(50)>>
    /\ out.written = <<"Status_InvalidStatement">>
    /\ settings[0].dbl_click_window = 900

\* C17: every encoder slot's stored cpr and cpd are positive in every state
\* reachable from the restored defaults, encoder_setting having refused every
\* value that is not a positive integer.
C17_PositiveCounts == \A e \in Encoders : settings[e].cpr > 0 /\ settings[e].cpd > 0

\* The last call was encoder_event with a position change and no click for
\* encoder e, which is configured in the Universal role; o is "out".
IsUniversalTurn(o, e) == IsTurn(o, e) /\ settings[e].mode = Encoder_Universal

\* C18 (as amended): a sample with a position change and no click of an encoder
\* configured in the Universal role (cpr > 0) changes neither the selected target
\* nor the mode changed flag and is handled as the selected target handles it.
\* With n the quotient position * 100 / cpr truncated toward zero: if n equals
\* the baseline and the velocity is not 0, or the target is RapidRate and the
\* distance from the committed position is below cpd, nothing is injected and
\* neither the baseline nor the committed position changes; else the baseline
\* becomes n, the committed position the sample's, and the commands are the
\* |n - baseline| fine steps of the target (FeedRate, SpindleRPM) or the one of
\* the level table (RapidRate).
C18_UniversalFollowsTarget ==
    [][ \A e \in Encoders :
          (IsUniversalTurn(out', e) /\ settings[e].cpr > 0) =>
             LET position == out'.arg[3]
                 n == CDiv(position * 100, settings[e].cpr)
                 target == encoder[e].mode
                 fine == IF target = Encoder_FeedRate
                         THEN IF n > npos[e] THEN "CMD_OVERRIDE_FEED_FINE_PLUS"
                              ELSE "CMD_OVERRIDE_FEED_FINE_MINUS"
                         ELSE IF n > npos[e] THEN "CMD_OVERRIDE_SPINDLE_FINE_PLUS"
                              ELSE "CMD_OVERRIDE_SPINDLE_FINE_MINUS"
                 idle == \/ (n = npos[e] /\ out'.arg[4] # 0)
                         \/ /\ target = Encoder_RapidRate
                            /\ Abs(position - encoder[e].position) < settings[e].cpd
             IN /\ encoder'[e].mode = target
                /\ mode_chg' = mode_chg
                /\ target \in {Encoder_FeedRate, Encoder_RapidRate, Encoder_Spindle_RPM}
                /\ IF idle
                   THEN /\ out'.injected = <<>>
                        /\ npos'[e] = npos[e]
                        /\ encoder'[e].position = encoder[e].position
                   ELSE /\ npos'[e] = n
                        /\ encoder'[e].position = position
                        /\ out'.injected =
                             IF target = Encoder_RapidRate
                             THEN RapidTable(out'.arg[5], encoder[e].position,
                                             position, TRUE)
                             ELSE [i \in 1 .. Abs(n - npos[e]) |-> fine] ]_vars

\* C18 witness: the Universal encoder, its target cycled to SpindleRPM by two
\* clicks, got a sample one count up: one spindle "fine plus" was injected and
\* the baseline and the committed position moved.
C18_Witness ==
    /\ out.op = "event"
    /\ out.arg[2] = {"position_changed"}
    /\ settings[out.arg[1]].mode = Encoder_Universal
    /\ encoder[out.arg[1]].mode = Encoder_Spindle_RPM
    /\ out.injected = <<"CMD_OVERRIDE_SPINDLE_FINE_PLUS">>
    /\ npos[out.arg[1]] = 1
    /\ encoder[out.arg[1]].position = out.arg[3]

\* C18 as stated: a position-change sample of an encoder configured in the
\* Universal role injects nothing and changes neither the baseline nor the
\* committed position.
C18_TurnsIgnored ==
    [][ \A e \in Encoders :
          IsUniversalTurn(out', e) =>
             /\ out'.injected = <<>>
             /\ npos'[e] = npos[e]
             /\ encoder'[e].position = encoder[e].position ]_vars

\* C19: a sample of an MPG wheel that carries a click and a position change
\* (at velocity 0, or to a count that is neither the baseline nor 0) performs both
\* actions: the click's (a shared wheel advances the active axis
\* round-robin, a per-axis wheel raises "scale" for its axis) and the position
\* change's ("stop" at velocity 0, else "position_changed", raised for the
\* wheel's active axis with its bit in the pending mask).
C19_BothFire ==
    [][ \A e \in Encoders :
          (/\ out'.op = "event"
           /\ out'.arg[1] = e
           /\ out'.arg[2] = {"click", "position_changed"}
           /\ IsMPGMode(encoder[e].mode)
           /\ settings[e].cpr > 0
           /\ \/ out'.arg[4] = 0
              \/ CDiv(out'.arg[3] * 100, settings[e].cpr) \notin {npos[e], 0}) =>
             LET axis == encoder'[e].axis
                 moved == IF out'.arg[4] = 0 THEN "stop" ELSE "position_changed"
             IN /\ IF settings[e].mode = Encoder_MPG
                   THEN axis = (encoder[e].axis + 1) % N_AXIS
                   ELSE axis = encoder[e].axis /\ "scale" \in mpg'[axis].event
                /\ moved \in mpg'[axis].event
                /\ axis \in mpg_event' ]_vars

\* C20: no call of encoder_event or encoder_execute_realtime writes the pending
\* mask or a live per-axis event flag without holding mpg_spin_lock, and the
\* lock is free whenever a call has submitted a command.
C20_WritesLocked ==
    /\ out.op \in {"event", "exec"} => out.unlocked = {}
    /\ out.submitted # <<>> => ~mpg_spin_lock

\* The axes of the snapshot of the last pass that contributed a position_changed
\* event no stop event of the same axis cancelled; o is "out".
Movers(o) ==
    {a \in o.axes : "position_changed" \in o.snapshot[a] /\ "stop" \notin o.snapshot[a]}

\* C21: a call of encoder_execute_realtime calls the motion strategy exactly once
\* when at least one axis of its snapshot contributed a position_changed event
\* that no stop cancelled, whatever the number of such axes, with the machine
\* state and the axes of the snapshot; it does not call it otherwise (no
\* snapshot taken included).
C21_OneStrategyCall ==
    out.op = "exec" =>
        IF Movers(out) # {}
        THEN /\ Len(out.handler) = 1
             /\ out.handler[1].axes = out.axes
             /\ out.arg[1] \in {STATE_IDLE, STATE_JOG}
        ELSE out.handler = <<>>

\* C21 witness: two axes contributed position_changed to one snapshot and the
\* strategy was called once.
C21_Witness ==
    /\ out.op = "exec"
    /\ Cardinality(Movers(out)) = 2
    /\ Len(out.handler) = 1

\* C22: a sample with a position change and no click of an MPG encoder (shared
\* or per-axis, cpr > 0), n being position * 100 / cpr: at velocity 0 it adds the
\* stop flag, and no position_changed flag, to the live events of the encoder's
\* axis; at a velocity that is not 0 with n off the baseline it adds
\* position_changed and no stop; in both cases the axis bit is set in the pending
\* mask and the flags of the other axes are left alone; at a velocity that is not
\* 0 with n on the baseline no flag and no mask bit changes and the baseline and
\* the committed position stay.
C22_StopOrMove ==
    [][ \A e \in Encoders :
          (/\ IsTurn(out', e)
           /\ IsMPGMode(encoder[e].mode)
           /\ settings[e].cpr > 0) =>
             LET axis == encoder[e].axis
                 n == CDiv(out'.arg[3] * 100, settings[e].cpr)
                 flag == IF out'.arg[4] = 0 THEN "stop" ELSE "position_changed"
             IN IF out'.arg[4] = 0 \/ n # npos[e]
                THEN /\ mpg'[axis].event = mpg[axis].event \cup {flag}
                     /\ mpg_event' = mpg_event \cup {axis}
                     /\ \A a \in Axes \ {axis} : mpg'[a].event = mpg[a].event
                ELSE /\ \A a \in Axes : mpg'[a].event = mpg[a].event
                     /\ mpg_event' = mpg_event
                     /\ npos'[e] = npos[e]
                     /\ encoder'[e].position = encoder[e].position ]_vars

\* C22 witness: a sample at velocity 0 of an MPG wheel: its axis has the stop
\* flag alone and its bit in the pending mask.
C22_Witness ==
    /\ out.op = "event"
    /\ out.arg[2] = {"position_changed"}
    /\ out.arg[4] = 0
    /\ IsMPGMode(encoder[out.arg[1]].mode)
    /\ mpg[encoder[out.arg[1]].axis].event = {"stop"}
    /\ encoder[out.arg[1]].axis \in mpg_event

\* C23: the active axis of a shared MPG wheel is an axis; a sample of the wheel
\* that carries a click moves it to the next axis, the first after the last, and
\* leaves the committed count of the new active axis, the wheel's baseline and
\* raw position at 0 and the hardware counter reset once.
C23_RoundRobin ==
    [][ \A e \in Encoders :
          (/\ out'.op = "event"
           /\ out'.arg[1] = e
           /\ "click" \in out'.arg[2]
           /\ settings[e].mode = Encoder_MPG) =>
             /\ encoder[e].axis \in 0 .. (N_AXIS - 1)
             /\ encoder'[e].axis = (IF encoder[e].axis = N_AXIS - 1 THEN 0
                                    ELSE encoder[e].axis + 1)
             /\ mpg'[encoder'[e].axis].position = 0
             /\ npos'[e] = 0
             /\ encoder'[e].position = 0
             /\ out'.resets = <<e>> ]_vars

\* C23 witness: a click of the shared wheel has brought the active axis, which
\* encoder_init set to X, back to X, and the counters are 0.
C23_Witness ==
    /\ out.op = "event"
    /\ "click" \in out.arg[2]
    /\ settings[out.arg[1]].mode = Encoder_MPG
    /\ encoder[out.arg[1]].axis = 0
    /\ mpg[0].position = 0
    /\ npos[out.arg[1]] = 0
    /\ out.resets = <<out.arg[1]>>

\* C24: when a pass has called the motion strategy, every axis the strategy put
\* into the command (a nonzero delta) has the normalized count of the encoder
\* bound to it as its committed count, so that its delta is 0 afterwards.
C24_DeltaConsumed ==
    [][ out'.op = "exec" =>
          \A i \in 1 .. Len(out'.handler) :
          \A j \in 1 .. Len(out'.handler[i].words) :
             LET idx == out'.handler[i].words[j][1]
             IN mpg'[idx].position = npos'[mpg'[idx].encoder] ]_vars

\* C25: the axes a pass hands to the motion strategy are those that contributed
\* a position_changed event no stop cancelled; every axis word of the command is
\* of such an axis; an axis of the snapshot that is not one (and had no zero
\* request) keeps its committed count; and when no zero was requested and some
\* such axis has a nonzero delta, all of them at a velocity above 0, the command
\* is emitted with a feed above 0.
C25_OnlyMovers ==
    [][ out'.op = "exec" =>
          \A i \in 1 .. Len(out'.handler) :
             LET h == out'.handler[i]
                 movers == Movers(out')
                 quiet == \A a \in out'.axes : "zero" \notin out'.snapshot[a]
             IN /\ h.axes = movers
                /\ \A j \in 1 .. Len(h.words) : h.words[j][1] \in movers
                /\ \A a \in out'.axes \ movers :
                      "zero" \notin out'.snapshot[a] => mpg'[a].position = mpg[a].position
                /\ (/\ quiet
                    /\ \E a \in movers : mpg[a].position # npos[mpg[a].encoder]
                    /\ \A a \in movers : encoder[mpg[a].encoder].velocity > 0)
                      => h.emitted /\ h.velocity > 0 ]_vars

====
